---- MODULE Spec2Model ----
(***************************************************************************)
(* Model of src/server.py: the shaping layer of the OpenAlex works server. *)
(* The six tool handlers are actions; each runs to completion in one step  *)
(* (the handlers hold no await on their main path), calling the dataset    *)
(* client (pyalex), whose replies are the nondeterministic environment.    *)
(***************************************************************************)
EXTENDS Integers, Sequences, FiniteSets, TLC

VARIABLES pc, call, env, requests, outcome, seen

vars == <<pc, call, env, requests, outcome, seen>>

(***************************************************************************)
(* Python values.  Every value is a record tagged by its type, so that     *)
(* values of different types can be compared.  A str is a sequence of      *)
(* tokens, a dict a function from key names, a list a sequence of values.  *)
(***************************************************************************)
None == [t |-> "None"]
Str(toks) == [t |-> "str", v |-> toks]
S(tok) == Str(<<tok>>)
Num(n) == [t |-> "int", v |-> n]
Dict(d) == [t |-> "dict", v |-> d]
List(l) == [t |-> "list", v |-> l]

EmptyMap == [k \in {} |-> None]

IsNone(x) == x.t = "None"

\* Python truth value of a value (used by `if x`, `not x`, `x and y`).
Truthy(x) ==
    CASE x.t = "None" -> FALSE
      [] x.t = "str" -> Len(x.v) > 0
      [] x.t = "int" -> x.v # 0
      [] x.t = "dict" -> DOMAIN x.v # {}
      [] x.t = "list" -> Len(x.v) > 0
      [] OTHER -> TRUE

\* d.get(k, default) on a mapping d (a function from key names).
Get(d, k, default) == IF k \in DOMAIN d THEN d[k] ELSE default

\* {k: d[k] for k in d if k in keys}
Restrict(d, keys) == [k \in (DOMAIN d) \cap keys |-> d[k]]

\* d with d[k] = v assigned (key added or overwritten).
Put(d, k, v) == [x \in (DOMAIN d) \cup {k} |-> IF x = k THEN v ELSE d[x]]

\* del d[k]
Del(d, k) == [x \in (DOMAIN d) \ {k} |-> d[x]]

\* set(fields) for a list of key names.
SetOf(list) == {list.v[i] : i \in DOMAIN list.v}

Min(a, b) == IF a < b THEN a ELSE b

\* The element of a one-element set.  Only({F(x) : x \in {expr}}) is F at the
\* value of expr, with expr evaluated once.
Only(set) == CHOOSE x \in set : TRUE

(***************************************************************************)
(* Results of Python code that may raise.                                  *)
(***************************************************************************)
Ok(v) == [ok |-> TRUE, v |-> v]
Raise(e) == [ok |-> FALSE, exc |-> e]

\* An exception: its type, str(e), and its `response` attribute:
\* "noattr" (no such attribute), "None" (attribute set to None), or the
\* HTTP status of the response object it carries.
Exc(type, msg, response) == [type |-> type, msg |-> msg, response |-> response]

AttributeErrorGet == Exc("AttributeError", <<"'NoneType' object has no attribute 'get'">>, "noattr")
TypeErrorIter == Exc("TypeError", <<"'NoneType' object is not iterable">>, "noattr")

(***************************************************************************)
(* _select_fields (Field Selector)                                         *)
(***************************************************************************)
required_ids == {"id", "doi"}

_select_fields_no_ids(item, fields) == Restrict(item, SetOf(fields))

_select_fields(item, fields) == Restrict(item, SetOf(fields) \cup required_ids)

(***************************************************************************)
(* _summarize_work (Summarizer)                                            *)
(***************************************************************************)
AuthorCap == 6

\* authorship.get("author", {}).get("display_name"); evaluated only where
\* neither the authorship nor its author sub-record is None.
DisplayNameOf(authorship) ==
    Get(Get(authorship.v, "author", Dict(EmptyMap)).v, "display_name", None)

\* Whether evaluating the comprehension raises: iterating None, or .get on
\* a None authorship / a None author sub-record.
AuthorsRaises(work_dict) ==
    LET authorships == Get(work_dict, "authorships", List(<<>>))
    IN  \/ IsNone(authorships)
        \/ \E i \in DOMAIN authorships.v :
              \/ IsNone(authorships.v[i])
              \/ IsNone(Get(authorships.v[i].v, "author", Dict(EmptyMap)))

SummaryAuthorsUncapped(work_dict) ==
    LET authorships == Get(work_dict, "authorships", List(<<>>)).v
        named == SelectSeq(authorships, LAMBDA a : Truthy(DisplayNameOf(a)))
    IN  List([i \in 1..Len(named) |-> DisplayNameOf(named[i])])

\* [name for authorship in authorships if name][:6]
SummaryAuthors(work_dict) ==
    LET authorships == Get(work_dict, "authorships", List(<<>>)).v
        named == SelectSeq(authorships, LAMBDA a : Truthy(DisplayNameOf(a)))
        names == [i \in 1..Len(named) |-> DisplayNameOf(named[i])]
    IN  List(SubSeq(names, 1, Min(AuthorCap, Len(names))))

VenueRaises(work_dict) == IsNone(Get(work_dict, "primary_location", Dict(EmptyMap)))

SummaryVenue(work_dict) ==
    LET venue_source == Get(Get(work_dict, "primary_location", Dict(EmptyMap)).v,
                            "source", Dict(EmptyMap))
    IN  IF Truthy(venue_source) THEN Get(venue_source.v, "display_name", None) ELSE None

BestOaPdf(work_dict) ==
    LET best_oa == Get(work_dict, "best_oa_location", None)
    IN  IF Truthy(best_oa) THEN Get(best_oa.v, "pdf_url", None) ELSE None

\* The elif branch is evaluated only when best_oa gave no pdf_url.
OaUrlRaises(work_dict) ==
    /\ ~Truthy(BestOaPdf(work_dict))
    /\ IsNone(Get(work_dict, "open_access", Dict(EmptyMap)))

SummaryOaUrl(work_dict) ==
    IF Truthy(BestOaPdf(work_dict))
    THEN BestOaPdf(work_dict)
    ELSE LET oa_url == Get(Get(work_dict, "open_access", Dict(EmptyMap)).v, "oa_url", None)
         IN  IF Truthy(oa_url) THEN oa_url ELSE None

default_summary_keys ==
    {"id", "doi", "title", "publication_year", "authors", "cited_by_count",
     "venue", "oa_url", "abstract"}

summary_data(work_dict) ==
    [k \in default_summary_keys |->
        CASE k = "authors" -> SummaryAuthors(work_dict)
          [] k = "venue" -> SummaryVenue(work_dict)
          [] k = "oa_url" -> SummaryOaUrl(work_dict)
          [] OTHER -> Get(work_dict, k, None)]

keys_to_include(select_fields) ==
    IF IsNone(select_fields)
    THEN default_summary_keys
    ELSE default_summary_keys \cap SetOf(select_fields)

\* Returns Ok(final_summary), or the exception the extraction raises.
_summarize_work(work_dict, select_fields) ==
    IF AuthorsRaises(work_dict)
    THEN Raise(IF IsNone(Get(work_dict, "authorships", List(<<>>)))
               THEN TypeErrorIter ELSE AttributeErrorGet)
    ELSE IF VenueRaises(work_dict) THEN Raise(AttributeErrorGet)
    ELSE IF OaUrlRaises(work_dict) THEN Raise(AttributeErrorGet)
    ELSE LET data == summary_data(work_dict)
         IN  Ok(Restrict(data, {k \in keys_to_include(select_fields) : ~IsNone(data[k])}))

(***************************************************************************)
(* Identifier strings.  split("/")[-1] of a str held as tokens, where the  *)
(* token "/" is the separator.                                             *)
(***************************************************************************)
OPENALEX_PREFIX == <<"https:", "/", "/", "openalex.org", "/">>

StartsWith(s, prefix) ==
    /\ Len(s) >= Len(prefix)
    /\ SubSeq(s, 1, Len(prefix)) = prefix

LastSegment(s) ==
    LET slashes == {i \in 1..Len(s) : s[i] = "/"}
        last == IF slashes = {} THEN 0 ELSE CHOOSE i \in slashes : \A j \in slashes : j <= i
    IN  SubSeq(s, last + 1, Len(s))

FirstSegment(s) ==
    LET slashes == {i \in 1..Len(s) : s[i] = "/"}
        first == IF slashes = {} THEN Len(s) + 1
                 ELSE CHOOSE i \in slashes : \A j \in slashes : i <= j
    IN  SubSeq(s, 1, first - 1)

CleanIdFirstSegment(work_id) ==
    IF StartsWith(work_id, OPENALEX_PREFIX) THEN FirstSegment(work_id) ELSE work_id

\* work_id.split("/")[-1] if work_id.startswith("https://openalex.org/") else work_id
CleanId(work_id) ==
    IF StartsWith(work_id, OPENALEX_PREFIX) THEN LastSegment(work_id) ELSE work_id

(***************************************************************************)
(* The dataset client (pyalex), the external collaborator.  What it holds  *)
(* is fixed; how it answers one invocation is the invocation's env:        *)
(*   fault, faultAt  the exception it raises, at which request             *)
(*   missing         how it answers a lookup that resolves to no record    *)
(*   items           the representation of the items of a page or list     *)
(*   meta            where a page's pagination metadata is exposed         *)
(*   nmatch          how many works the listing query matches              *)
(***************************************************************************)
IdUrl(tok) == Str(OPENALEX_PREFIX \o <<tok>>)

NumList(ns) == List([i \in DOMAIN ns |-> Num(ns[i])])

NamedAuthor(name) == Dict("author" :> Dict("display_name" :> S(name)))

WorkA ==
    [id |-> IdUrl("W1"), doi |-> S("D1"), title |-> S("T1"),
     publication_year |-> Num(2020), cited_by_count |-> Num(7),
     authorships |-> List(<<NamedAuthor("Ann"), NamedAuthor("Bob")>>),
     primary_location |-> Dict("source" :> Dict("display_name" :> S("Nature"))),
     open_access |-> Dict("oa_url" :> S("oa1")),
     best_oa_location |-> Dict("pdf_url" :> S("pdf1")),
     abstract_inverted_index |->
         Dict(("the" :> NumList(<<0, 2>>)) @@ ("cat" :> NumList(<<1>>))),
     referenced_works |-> List(<<IdUrl("W2"), IdUrl("W3")>>)]

\* A record with null sub-records, as the dataset serves for sparse works.
WorkB ==
    [id |-> IdUrl("W2"), doi |-> None, title |-> S("T2"),
     publication_year |-> Num(2021), cited_by_count |-> Num(0),
     authorships |-> List(<<>>),
     primary_location |-> None,
     open_access |-> Dict("oa_url" :> None),
     best_oa_location |-> None,
     abstract_inverted_index |-> None,
     referenced_works |-> List(<<>>)]

WorkC ==
    [id |-> IdUrl("W3"), doi |-> S("D3"), title |-> S("T3"),
     publication_year |-> Num(2022), cited_by_count |-> Num(1),
     authorships |-> List(<<NamedAuthor("Cyd")>>),
     primary_location |-> Dict("source" :> None),
     open_access |-> Dict("oa_url" :> S("oa3")),
     best_oa_location |-> None,
     abstract_inverted_index |-> Dict("dog" :> NumList(<<0>>)),
     referenced_works |-> None]

WorkD ==
    [id |-> IdUrl("W4"), doi |-> S("D4"), title |-> S("T4"),
     publication_year |-> Num(2023), cited_by_count |-> Num(3),
     authorships |-> List(<<NamedAuthor("Dee")>>),
     primary_location |-> Dict("source" :> Dict("display_name" :> S("Cell"))),
     open_access |-> Dict("oa_url" :> None),
     best_oa_location |-> Dict("pdf_url" :> None),
     abstract_inverted_index |-> Dict("fox" :> NumList(<<0>>))]

Dataset == <<WorkA, WorkC, WorkD, WorkB>>

DatasetIds == <<"W1", "W3", "W4", "W2">>

\* The position in Dataset of the work an identifier resolves to, 0 if none.
\* The dataset resolves bare identifiers and full identifier URLs.
Resolve(id) ==
    LET hits == {i \in DOMAIN Dataset :
                    id = <<DatasetIds[i]>> \/ id = OPENALEX_PREFIX \o <<DatasetIds[i]>>}
    IN  IF hits = {} THEN 0 ELSE CHOOSE i \in hits : TRUE

\* Field selection pushed to the dataset: all fields, or a set of names.
SelAll == [all |-> TRUE, fields |-> {}]
Sel(fields) == [all |-> FALSE, fields |-> fields]

Project(work, select) == IF select.all THEN work ELSE Restrict(work, select.fields)

\* Objects the client hands back.
WorkObj(d) == [t |-> "work", d |-> d]
PlainDict(d) == [t |-> "pydict", d |-> d]
ToDictObj(d) == [t |-> "todict", d |-> d]
Junk == [t |-> "junk", d |-> EmptyMap]

\* isinstance(x, dict): pyalex's Work is a dict subclass.
IsDict(x) == x.t \in {"work", "pydict"}

\* Exceptions of the client.
HTTPError(status) == Exc("HTTPError", <<status, " Client Error">>, status)
ConnectionError == Exc("ConnectionError", <<"Connection aborted">>, "None")
QueryError == Exc("QueryError", <<"query rejected">>, "noattr")

ClientExc(fault) ==
    CASE fault = "http404" -> HTTPError("404")
      [] fault = "http500" -> HTTPError("500")
      [] fault = "network" -> ConnectionError
      [] OTHER -> QueryError

Faults == {"http404", "http500", "network", "query"}

\* A request to the client.
Req(kind, id, select, cursor, per_page) ==
    [kind |-> kind, id |-> id, select |-> select, cursor |-> cursor, per_page |-> per_page]

Faulty(e, n) == e.fault # "none" /\ e.faultAt = n

\* Works()[id] and Works().select(fields)[id], as the n-th request.  A
\* lookup that resolves to no record hands back nothing (None, or an empty
\* Work); a 404 raised as an exception is the fault "http404".
ClientGet(id, select, e, n) ==
    IF Faulty(e, n) THEN Raise(ClientExc(e.fault))
    ELSE IF Resolve(id) = 0
    THEN IF e.missing = "none" THEN Ok(None) ELSE Ok(WorkObj(EmptyMap))
    ELSE Ok(WorkObj(Project(Dataset[Resolve(id)], select)))

\* Cursors are opaque strings; the client's cursor after k works is "cursor" k.
Star == S("*")
CursorTok(k) == Str(<<"cursor", ToString(k)>>)

CursorOffset(cursor) ==
    IF cursor = Star THEN 0
    ELSE CHOOSE k \in 1..Len(Dataset) : CursorTok(k) = cursor

\* The representation of the i-th item of a page.
PageItem(work, i, e) ==
    CASE e.items = "pydict" -> PlainDict(work)
      [] e.items = "todict" -> ToDictObj(work)
      [] e.items = "junk_first" /\ i = 1 -> Junk
      [] OTHER -> WorkObj(work)

\* One page of the listing query and its metadata block.
ClientPage(cursor, per_page, select, e) ==
    LET off == CursorOffset(cursor)
        last == Min(off + per_page, e.nmatch)
        works == SubSeq(Dataset, off + 1, last)
    IN  [items |-> [i \in 1..Len(works) |-> PageItem(Project(works[i], select), i, e)],
         meta |-> [count |-> Num(e.nmatch), per_page |-> Num(per_page),
                   next_cursor |-> IF Len(works) = 0 THEN None
                                   ELSE CursorTok(off + Len(works))]]

\* invert_abstract of the client: the words in order of position, joined by
\* single spaces.
IndexPairs(index) ==
    UNION {{<<w, index.v[w].v[i].v>> : i \in DOMAIN index.v[w].v} : w \in DOMAIN index.v}

Join(words) ==
    [i \in 1..(IF Len(words) = 0 THEN 0 ELSE 2 * Len(words) - 1) |->
        IF i % 2 = 1 THEN words[(i + 1) \div 2] ELSE " "]

InvertAbstract(index) ==
    LET pairs == IndexPairs(index)
        kth(k) == CHOOSE pr \in pairs : Cardinality({q \in pairs : q[2] < pr[2]}) = k - 1
    IN  Str(Join([k \in 1..Cardinality(pairs) |-> kth(k)[1]]))

KeyError(key) == Exc("KeyError", <<"'", key, "'">>, "noattr")

\* obj["abstract"]: a Work inverts its abstract_inverted_index (KeyError when
\* the key is missing, None when the index is null); a plain dict looks the
\* key up.
AbstractAccess(obj) ==
    IF obj.t = "work"
    THEN IF "abstract_inverted_index" \notin DOMAIN obj.d
         THEN Raise(KeyError("abstract_inverted_index"))
         ELSE IF IsNone(obj.d["abstract_inverted_index"]) THEN Ok(None)
         ELSE Ok(InvertAbstract(obj.d["abstract_inverted_index"]))
    ELSE IF "abstract" \in DOMAIN obj.d THEN Ok(obj.d["abstract"])
         ELSE Raise(KeyError("abstract"))

(***************************************************************************)
(* _process_results (Record Normalizer)                                    *)
(***************************************************************************)
ProcessItem(item0, select_fields) ==
    LET item == IF IsDict(item0) THEN item0 ELSE PlainDict(item0.d)
        access == AbstractAccess(item)
        generated_abstract ==
            IF IsNone(select_fields) /\ access.ok THEN access.v ELSE None
        dict_item ==
            IF ~IsNone(generated_abstract)
            THEN Put(item.d, "abstract", generated_abstract)
            ELSE IF IsNone(select_fields) /\ "abstract" \notin DOMAIN item.d
            THEN Put(item.d, "abstract", None)
            ELSE item.d
    IN  IF Truthy(select_fields) THEN _select_fields(dict_item, select_fields)
        ELSE dict_item

\* Items that are no dict and have no to_dict are skipped.
_process_results(results, select_fields) ==
    Only({[i \in 1..Len(kept) |-> ProcessItem(kept[i], select_fields)] :
            kept \in {SelectSeq(results, LAMBDA x : IsDict(x) \/ x.t = "todict")}})

(***************************************************************************)
(* The tool handlers.  Each is a function of its arguments and of the      *)
(* client's behaviour e, giving the requests it issues (reqs) and what the *)
(* caller gets (out): a returned mapping or a propagated exception.        *)
(***************************************************************************)
Return(mapping) == [kind |-> "return", value |-> mapping]
Propagate(exc) == [kind |-> "raise", exc |-> exc]

Done(out, reqs) == [out |-> out, reqs |-> reqs]

\* str(e)
StrOf(exc) == Str(exc.msg)

ValidSearchFields == {"title", "abstract", "fulltext", "title_and_abstract", "display_name"}

PageErrorBare(exc) == Return("error" :> StrOf(exc))

\* The except clause of search_works and get_citing_works.
PageError(exc) ==
    Return(("error" :> StrOf(exc)) @@ ("results" :> List(<<>>)) @@ ("meta" :> Dict(EmptyMap)))

\* query.paginate(per_page, cursor, n_max=per_page), next(pager) and the
\* retrieval of the page's metadata, the page request being the n-th request.
FetchFirstPage(target, select, per_page, cursor, e, n) ==
    LET pageReq == Req("page", target, select, cursor, per_page)
        metaReq == Req("meta", target, select, cursor, per_page)
    IN  IF IsNone(cursor)
        THEN [ok |-> TRUE, page_results |-> <<>>, reqs |-> <<>>,
              metadata |-> [count |-> Num(0), page |-> Num(1),
                            per_page |-> Num(per_page), next_cursor |-> None]]
        ELSE IF Faulty(e, n) THEN [ok |-> FALSE, exc |-> ClientExc(e.fault), reqs |-> <<pageReq>>]
        ELSE Only({[ok |-> TRUE, page_results |-> reply.items,
                    reqs |-> IF e.meta \in {"fallback", "fallback_raises"}
                             THEN <<pageReq, metaReq>> ELSE <<pageReq>>,
                    metadata |-> IF e.meta \in {"page", "fallback"}
                                 THEN reply.meta ELSE EmptyMap] :
                     reply \in {ClientPage(cursor, per_page, select, e)}})

\* [_summarize_work(item, select_fields) for item in processed]: the list,
\* or the exception of the first item that raises.
SummarizeAll(processed, select_fields) ==
    Only({LET bad == {i \in DOMAIN sums : ~sums[i].ok}
          IN  IF bad = {} THEN Ok([i \in DOMAIN sums |-> sums[i].v])
              ELSE Raise(sums[CHOOSE i \in bad : \A j \in bad : i <= j].exc) :
            sums \in {[i \in DOMAIN processed |->
                          _summarize_work(processed[i], select_fields)]}})

PageResponseNoCursor(final_results, metadata, per_page) ==
    Return(("results" :> List([i \in DOMAIN final_results |-> Dict(final_results[i])]))
           @@ ("meta" :> Dict([count |-> Get(metadata, "count", None),
                               per_page |-> Get(metadata, "per_page", Num(per_page)),
                               next_cursor |-> Get(metadata, "cursor", None)])))

PageResponse(final_results, metadata, per_page) ==
    Return(("results" :> List([i \in DOMAIN final_results |-> Dict(final_results[i])]))
           @@ ("meta" :> Dict([count |-> Get(metadata, "count", None),
                               per_page |-> Get(metadata, "per_page", Num(per_page)),
                               next_cursor |-> Get(metadata, "next_cursor", None)])))

\* The response built from a fetched page: lines 270-292 of search_works.
SearchShape(a, fetch, reqs) ==
    IF ~fetch.ok THEN Done(PageError(fetch.exc), reqs)
    ELSE Only({IF ~a.summarize_results
               THEN Done(PageResponse(processed_page_results, fetch.metadata, a.per_page), reqs)
               ELSE Only({IF ~summaries.ok THEN Done(PageError(summaries.exc), reqs)
                          ELSE Done(PageResponse(summaries.v, fetch.metadata, a.per_page), reqs) :
                            summaries \in {SummarizeAll(processed_page_results,
                                                        a.select_fields)}}) :
                 processed_page_results \in {_process_results(fetch.page_results, None)}})

search_works(a, e) ==
    LET target == <<"search", a.search_field, a.search_query>>
        countReq == Req("count", target, SelAll, None, 1)
        select == IF ~a.summarize_results /\ Truthy(a.select_fields)
                  THEN Sel(SetOf(a.select_fields)) ELSE SelAll
    IN  IF a.search_field # "default" /\ a.search_field \notin ValidSearchFields
        THEN Done(PageError(Exc("ValueError", <<"Invalid search_field: ", a.search_field>>,
                                "noattr")), <<>>)
        ELSE IF Faulty(e, 1) THEN Done(PageError(ClientExc(e.fault)), <<countReq>>)
        ELSE Only({SearchShape(a, fetch, <<countReq>> \o fetch.reqs) :
                     fetch \in {FetchFirstPage(target, select, a.per_page, a.cursor, e, 2)}})

default_summary_fields ==
    {"id", "doi", "title", "publication_year", "authorships", "cited_by_count",
     "primary_location", "open_access", "abstract"}

\* The response built from a fetched page: lines 623-644 of get_citing_works.
CitingShape(a, fetch) ==
    IF ~fetch.ok THEN Done(PageError(fetch.exc), fetch.reqs)
    ELSE Only({IF ~a.summarize_results
               THEN Done(PageResponse(processed_page_results, fetch.metadata, a.per_page),
                         fetch.reqs)
               ELSE Only({IF ~summaries.ok THEN Done(PageError(summaries.exc), fetch.reqs)
                          ELSE Done(PageResponse(summaries.v, fetch.metadata, a.per_page),
                                    fetch.reqs) :
                            summaries \in {SummarizeAll(processed_page_results,
                                                        a.select_fields)}}) :
                 processed_page_results \in
                    {_process_results(fetch.page_results,
                                      IF a.summarize_results THEN None ELSE a.select_fields)}})

get_citing_works(a, e) ==
    LET target == <<"cites">> \o CleanId(a.work_id)
        select == IF ~a.summarize_results /\ Truthy(a.select_fields)
                  THEN Sel(SetOf(a.select_fields))
                  ELSE IF ~a.summarize_results THEN Sel(default_summary_fields)
                  ELSE SelAll
    IN  Only({CitingShape(a, fetch) :
                fetch \in {FetchFirstPage(target, select, a.per_page, a.cursor, e, 1)}})

WorkNotFoundBare(work_id) == Return("error" :> Str(<<"Work not found: ">> \o CleanId(work_id)))

WorkNotFound(work_id) == Return("error" :> Str(<<"Work not found: ">> \o work_id))

DetailsFromFullKeepIndex(work_data, select_fields) ==
    LET access == AbstractAccess(work_data)
        work_dict == Put(work_data.d, "abstract", IF access.ok THEN access.v ELSE None)
    IN  IF Truthy(select_fields) THEN _select_fields(work_dict, select_fields)
        ELSE work_dict

\* The full-fetch branch of get_work_details, given the Work fetched.
DetailsFromFull(work_data, select_fields) ==
    LET access == AbstractAccess(work_data)
        work_dict == Put(work_data.d, "abstract", IF access.ok THEN access.v ELSE None)
        final_result == IF Truthy(select_fields) THEN _select_fields(work_dict, select_fields)
                        ELSE work_dict
        should_remove_index ==
            /\ "abstract" \in DOMAIN final_result
            /\ ~IsNone(final_result["abstract"])
            /\ "abstract_inverted_index" \in DOMAIN final_result
            /\ (~Truthy(select_fields) \/ "abstract_inverted_index" \notin SetOf(select_fields))
    IN  IF should_remove_index THEN Del(final_result, "abstract_inverted_index")
        ELSE final_result

get_work_details(a, e) ==
    LET fetch_full_object ==
            ~Truthy(a.select_fields) \/ "abstract" \in SetOf(a.select_fields)
        select == IF fetch_full_object THEN SelAll
                  ELSE Sel(SetOf(a.select_fields) \cup {"id", "doi"})
        req == Req("get", a.work_id, select, None, 0)
        reply == ClientGet(a.work_id, select, e, 1)
    IN  IF ~reply.ok THEN Done(Return("error" :> StrOf(reply.exc)), <<req>>)
        ELSE IF IsNone(reply.v) \/ DOMAIN reply.v.d = {}
        THEN Done(WorkNotFound(a.work_id), <<req>>)
        ELSE IF fetch_full_object
        THEN Done(Return(DetailsFromFull(reply.v, a.select_fields)), <<req>>)
        ELSE Done(Return(reply.v.d), <<req>>)

ReferencedError(exc) ==
    Return(("error" :> StrOf(exc)) @@ ("referenced_work_ids" :> List(<<>>)))

get_referenced_works(a, e) ==
    LET work_id == CleanId(a.work_id)
        req == Req("get", work_id, Sel({"referenced_works"}), None, 0)
        reply == ClientGet(work_id, Sel({"referenced_works"}), e, 1)
    IN  IF ~reply.ok THEN Done(ReferencedError(reply.exc), <<req>>)
        ELSE IF IsNone(reply.v) THEN Done(ReferencedError(AttributeErrorGet), <<req>>)
        ELSE Done(Return("referenced_work_ids" :>
                             Get(reply.v.d, "referenced_works", List(<<>>))), <<req>>)

\* work.ngrams() of the client, as the n-th request.
ClientNgrams(id, e, n) ==
    IF Faulty(e, n) THEN Raise(ClientExc(e.fault))
    ELSE Ok(("meta" :> Dict("count" :> Num(1)))
            @@ ("ngrams" :> List(<<Dict("ngram" :> Str(id))>>)))

\* The except clause of get_work_ngrams: e.response.status_code is read
\* whenever the exception has a `response` attribute, also when it is None.
NgramsExcept(work_id, exc) ==
    IF exc.response = "noattr" THEN Return("error" :> StrOf(exc))
    ELSE IF exc.response = "None"
    THEN Propagate(Exc("AttributeError",
                       <<"'NoneType' object has no attribute 'status_code'">>, "noattr"))
    ELSE IF exc.response = "404"
    THEN Return("error" :> Str(<<"N-grams not found for work ID ">> \o work_id \o <<".">>))
    ELSE Return("error" :> StrOf(exc))

get_work_ngrams(a, e) ==
    LET work_id == CleanId(a.work_id)
        req1 == Req("get", work_id, SelAll, None, 0)
        req2 == Req("ngrams", work_id, SelAll, None, 0)
        reply == ClientGet(work_id, SelAll, e, 1)
        ngrams_data == ClientNgrams(work_id, e, 2)
    IN  IF ~reply.ok THEN Done(NgramsExcept(work_id, reply.exc), <<req1>>)
        ELSE IF IsNone(reply.v)
        THEN Done(NgramsExcept(work_id,
                      Exc("AttributeError",
                          <<"'NoneType' object has no attribute 'ngrams'">>, "noattr")),
                  <<req1>>)
        ELSE IF ~ngrams_data.ok THEN Done(NgramsExcept(work_id, ngrams_data.exc), <<req1, req2>>)
        ELSE Done(Return(ngrams_data.v), <<req1, req2>>)

MAX_IDS == 50

\* "|".join(cleaned_ids)
RECURSIVE JoinIds(_)
JoinIds(ids) ==
    IF Len(ids) = 0 THEN <<>>
    ELSE IF Len(ids) = 1 THEN ids[1]
    ELSE ids[1] \o <<"|">> \o JoinIds(Tail(ids))

\* Works().filter(ids={"openalex": ...}).select(...).get(), as the n-th
\* request: the works whose identifier is among ids, in dataset order.
ClientList(ids, select, e, n) ==
    IF Faulty(e, n) THEN Raise(ClientExc(e.fault))
    ELSE LET wanted == {ids[i] : i \in DOMAIN ids}
             hits == SelectSeq([i \in 1..Len(Dataset) |-> i],
                               LAMBDA i : <<DatasetIds[i]>> \in wanted)
         IN  Ok([i \in 1..Len(hits) |-> PageItem(Project(Dataset[hits[i]], select), i, e)])

\* The handler's own reconstruction, used for an item without __getitem__:
\* each word is put at its positions, unfilled positions stay "", and the
\* slots are joined by single spaces.
FallbackAbstract(index) ==
    LET pairs == IndexPairs(index)
        top == IF pairs = {} THEN -1
               ELSE CHOOSE m \in {q[2] : q \in pairs} : \A q \in pairs : q[2] <= m
        words == [k \in 1..(top + 1) |->
                     IF \E q \in pairs : q[2] = k - 1
                     THEN (CHOOSE q \in pairs : q[2] = k - 1)[1] ELSE ""]
    IN  Str(SelectSeq(Join(words), LAMBDA tok : tok # ""))

ApiSelectFieldsNoIndex(select_fields) ==
    LET without == SelectSeq(select_fields.v, LAMBDA f : f # "abstract")
    IN  IF "id" \notin SetOf(List(without)) THEN <<"id">> \o without ELSE without

\* api_select_fields of get_batch_work_details.
ApiSelectFields(select_fields) ==
    LET without == SelectSeq(select_fields.v, LAMBDA f : f # "abstract")
        indexed == IF /\ "abstract" \in SetOf(select_fields)
                      /\ "abstract_inverted_index" \notin SetOf(List(without))
                   THEN Append(without, "abstract_inverted_index") ELSE without
    IN  IF "id" \notin SetOf(List(indexed)) THEN <<"id">> \o indexed ELSE indexed

\* The body of the per-work loop of get_batch_work_details.
BatchItem(work, select_fields) ==
    LET abstract_requested == Truthy(select_fields) /\ "abstract" \in SetOf(select_fields)
        access == AbstractAccess(work)
        index == Get(work.d, "abstract_inverted_index", None)
        generated_abstract ==
            IF IsDict(work) THEN (IF access.ok THEN access.v ELSE None)
            ELSE IF Truthy(index) THEN FallbackAbstract(index) ELSE None
        work_dict ==
            IF abstract_requested \/ ~Truthy(select_fields)
            THEN IF "abstract_inverted_index" \in DOMAIN work.d
                 THEN Put(work.d, "abstract", generated_abstract)
                 ELSE Put(work.d, "abstract", None)
            ELSE work.d
        result ==
            IF Truthy(select_fields)
            THEN IF abstract_requested
                 THEN _select_fields(work_dict,
                                     List(ApiSelectFields(select_fields) \o <<"abstract">>))
                 ELSE _select_fields(work_dict, List(ApiSelectFields(select_fields)))
            ELSE work_dict
        inverted_index_requested ==
            Truthy(select_fields) /\ "abstract_inverted_index" \in SetOf(select_fields)
    IN  IF "abstract_inverted_index" \in DOMAIN result /\ ~inverted_index_requested
        THEN Del(result, "abstract_inverted_index")
        ELSE result

BatchRejected(msg) == Return(("error" :> S(msg)) @@ ("works" :> List(<<>>)))

TooManyInclusive(work_ids) == Len(work_ids) >= MAX_IDS

\* len(work_ids) > MAX_IDS
TooMany(work_ids) == Len(work_ids) > MAX_IDS

\* The response built from the client's list: the per-work loop.
BatchShape(a, reply, reqs) ==
    IF ~reply.ok
    THEN Done(Return(("error" :> StrOf(reply.exc)) @@ ("works" :> List(<<>>))), reqs)
    ELSE Only({Done(Return("works" :>
                       List([i \in 1..Len(kept) |->
                                Dict(BatchItem(kept[i], a.select_fields))])), reqs) :
                 kept \in {SelectSeq(reply.v, LAMBDA x : IsDict(x) \/ x.t = "todict")}})

get_batch_work_details(a, e) ==
    IF Len(a.work_ids) = 0 THEN Done(BatchRejected("work_ids list cannot be empty."), <<>>)
    ELSE IF TooMany(a.work_ids)
    THEN Done(BatchRejected("Too many work_ids provided. Maximum is 50."), <<>>)
    ELSE Only({LET target == <<"ids.openalex">> \o JoinIds(cleaned_ids)
                   select == IF Truthy(a.select_fields)
                             THEN Sel(SetOf(List(ApiSelectFields(a.select_fields))))
                             ELSE SelAll
               IN  BatchShape(a, ClientList(cleaned_ids, select, e, 1),
                              <<Req("list", target, select, None, 0)>>) :
                 cleaned_ids \in {[i \in DOMAIN a.work_ids |-> CleanId(a.work_ids[i])]}})

(***************************************************************************)
(* State shared by the specifications.                                     *)
(*   pc       "idle" (no invocation running) or "done" (one has returned)  *)
(*   call     the operation invoked and its arguments                      *)
(*   env      what the dataset client does during the invocation           *)
(*   requests the requests the invocation issued to the dataset client     *)
(*   outcome  what the invocation returned, or the exception it let out    *)
(*   seen     the pages returned so far along a cursor chain               *)
(***************************************************************************)
NoCall == [op |-> "none"]
NoEnv == [fault |-> "none"]
NoOutcome == [kind |-> "none"]

Idle ==
    /\ pc = "idle"
    /\ call = NoCall
    /\ env = NoEnv
    /\ requests = <<>>
    /\ outcome = NoOutcome
    /\ seen = <<>>

\* The caller has the result; the next invocation may begin.
NextInvocation ==
    /\ pc = "done"
    /\ pc' = "idle"
    /\ call' = NoCall
    /\ env' = NoEnv
    /\ requests' = <<>>
    /\ outcome' = NoOutcome
    /\ seen' = <<>>

(***************************************************************************)
(* The server: any of the six tools may be invoked, with arguments and     *)
(* client behaviour drawn from the sets below.                             *)
(***************************************************************************)
MaxPerPage == 2

BareIds == {"W1", "W2", "W3", "W9"}

\* Bare identifiers, their full-URL forms, and a URL with a longer path.
WorkIdArgs ==
    {<<w>> : w \in BareIds}
    \cup {OPENALEX_PREFIX \o <<w>> : w \in BareIds}
    \cup {OPENALEX_PREFIX \o <<"works", "/", "W1">>}

SelectArgs ==
    {None, List(<<>>), List(<<"title">>), List(<<"id", "title">>), List(<<"abstract">>),
     List(<<"title", "abstract_inverted_index">>),
     List(<<"abstract", "abstract_inverted_index">>),
     List(<<"doi", "referenced_works">>)}

Env(fault, faultAt, missing, items, meta, nmatch) ==
    [fault |-> fault, faultAt |-> faultAt, missing |-> missing, items |-> items,
     meta |-> meta, nmatch |-> nmatch]

\* Lookups: the client answers, finds nothing, or raises at the n-th request.
LookupEnvs(maxAt) ==
    {Env("none", 0, missing, "work", "page", Len(Dataset)) : missing \in {"none", "empty"}}
    \cup {Env(fault, at, "none", "work", "page", Len(Dataset)) :
             fault \in Faults, at \in 1..maxAt}

ItemKinds == {"work", "pydict", "todict", "junk_first"}

MetaKinds == {"page", "fallback", "fallback_raises", "absent"}

\* Listings: item representation, metadata exposure and result size vary.
ListingEnvs(maxAt) ==
    {Env("none", 0, "none", items, meta, nmatch) :
        items \in ItemKinds, meta \in MetaKinds, nmatch \in {0, 3, Len(Dataset)}}
    \cup {Env(fault, at, "none", "work", "page", Len(Dataset)) :
             fault \in Faults, at \in 1..maxAt}

BatchEnvs ==
    {Env("none", 0, "none", items, "page", Len(Dataset)) : items \in ItemKinds}
    \cup {Env(fault, 1, "none", "work", "page", Len(Dataset)) : fault \in Faults}

CursorArgs == {Star, None, CursorTok(MaxPerPage)}

SearchFieldArgs == {"default", "bogus", "author"} \cup ValidSearchFields

SearchArgs ==
    {[search_query |-> "q", search_field |-> sf, select_fields |-> None,
      summarize_results |-> TRUE, per_page |-> MaxPerPage, cursor |-> Star] :
        sf \in SearchFieldArgs}
    \cup {[search_query |-> "q", search_field |-> "default", select_fields |-> sel,
           summarize_results |-> sum, per_page |-> pp, cursor |-> cur] :
             sel \in SelectArgs, sum \in BOOLEAN, pp \in 1..MaxPerPage, cur \in CursorArgs}

CitingArgs ==
    {[work_id |-> id, select_fields |-> sel, summarize_results |-> sum,
      per_page |-> MaxPerPage, cursor |-> cur] :
        id \in {<<"W1">>, OPENALEX_PREFIX \o <<"W1">>}, sel \in SelectArgs,
        sum \in BOOLEAN, cur \in CursorArgs}

\* Identifier lists of every length from 0 to one more than the maximum:
\* identifiers of the dataset and unknown ones, bare or as URLs.
BatchIdPatterns == {"bare", "url", "mixed"}

BatchId(pattern, i) ==
    LET tok == <<"W1", "W2", "W9", "W4">>[(i % 4) + 1]
    IN  IF pattern = "url" \/ (pattern = "mixed" /\ i % 2 = 0)
        THEN OPENALEX_PREFIX \o <<tok>> ELSE <<tok>>

MaxBatch == 3

\* Short lists with every pattern and field list; lists of every length up
\* to one more than the maximum with one pattern.
BatchArgs ==
    {[work_ids |-> [i \in 1..n |-> BatchId(pattern, i)], select_fields |-> sel] :
        n \in 0..MaxBatch, pattern \in BatchIdPatterns, sel \in SelectArgs}
    \cup {[work_ids |-> [i \in 1..n |-> BatchId("mixed", i)], select_fields |-> sel] :
             n \in 0..(MAX_IDS + 1), sel \in {None, List(<<"abstract">>)}}

SearchWorks ==
    /\ pc = "idle"
    /\ \E a \in SearchArgs, e \in ListingEnvs(2) :
          \E r \in {search_works(a, e)} :
              /\ call' = [op |-> "search_works", args |-> a]
              /\ env' = e
              /\ requests' = r.reqs
              /\ outcome' = r.out
    /\ pc' = "done"
    /\ UNCHANGED seen

GetWorkDetails ==
    /\ pc = "idle"
    /\ \E id \in WorkIdArgs, sel \in SelectArgs, e \in LookupEnvs(1) :
          LET a == [work_id |-> id, select_fields |-> sel]
          IN  \E r \in {get_work_details(a, e)} :
              /\ call' = [op |-> "get_work_details", args |-> a]
              /\ env' = e
              /\ requests' = r.reqs
              /\ outcome' = r.out
    /\ pc' = "done"
    /\ UNCHANGED seen

GetBatchWorkDetails ==
    /\ pc = "idle"
    /\ \E a \in BatchArgs, e \in BatchEnvs :
          \E r \in {get_batch_work_details(a, e)} :
              /\ call' = [op |-> "get_batch_work_details", args |-> a]
              /\ env' = e
              /\ requests' = r.reqs
              /\ outcome' = r.out
    /\ pc' = "done"
    /\ UNCHANGED seen

GetReferencedWorks ==
    /\ pc = "idle"
    /\ \E id \in WorkIdArgs, e \in LookupEnvs(1) :
          LET a == [work_id |-> id]
          IN  \E r \in {get_referenced_works(a, e)} :
              /\ call' = [op |-> "get_referenced_works", args |-> a]
              /\ env' = e
              /\ requests' = r.reqs
              /\ outcome' = r.out
    /\ pc' = "done"
    /\ UNCHANGED seen

GetCitingWorks ==
    /\ pc = "idle"
    /\ \E a \in CitingArgs, e \in ListingEnvs(1) :
          \E r \in {get_citing_works(a, e)} :
              /\ call' = [op |-> "get_citing_works", args |-> a]
              /\ env' = e
              /\ requests' = r.reqs
              /\ outcome' = r.out
    /\ pc' = "done"
    /\ UNCHANGED seen

GetWorkNgrams ==
    /\ pc = "idle"
    /\ \E id \in WorkIdArgs, e \in LookupEnvs(2) :
          LET a == [work_id |-> id]
          IN  \E r \in {get_work_ngrams(a, e)} :
              /\ call' = [op |-> "get_work_ngrams", args |-> a]
              /\ env' = e
              /\ requests' = r.reqs
              /\ outcome' = r.out
    /\ pc' = "done"
    /\ UNCHANGED seen

Init == Idle

Next ==
    \/ SearchWorks
    \/ GetWorkDetails
    \/ GetBatchWorkDetails
    \/ GetReferencedWorks
    \/ GetCitingWorks
    \/ GetWorkNgrams
    \/ NextInvocation

Spec == Init /\ [][Next]_vars

Tools ==
    {"search_works", "get_work_details", "get_batch_work_details",
     "get_referenced_works", "get_citing_works", "get_work_ngrams"}

\* The handler of a tool, applied to arguments a under client behaviour e.
RunTool(op, a, e) ==
    CASE op = "search_works" -> search_works(a, e)
      [] op = "get_work_details" -> get_work_details(a, e)
      [] op = "get_batch_work_details" -> get_batch_work_details(a, e)
      [] op = "get_referenced_works" -> get_referenced_works(a, e)
      [] op = "get_citing_works" -> get_citing_works(a, e)
      [] OTHER -> get_work_ngrams(a, e)

Finished(op) == pc = "done" /\ call.op = op

\* The client raised at a request the invocation issued.
ClientRaised == env.fault # "none" /\ env.faultAt <= Len(requests)

\* C1: every tool returns a mapping whatever the client does (success,
\* not-found, HTTP error with a response, network error without one,
\* malformed record) and lets no exception out; when the client raised, the
\* mapping has an `error` key.
C1_NoExceptionPropagates ==
    (pc = "done" /\ call.op \in Tools) =>
        /\ outcome.kind = "return"
        /\ ClientRaised => "error" \in DOMAIN outcome.value

\* C2: get_batch_work_details returns {error, works: []} without contacting
\* the dataset exactly when the id list is empty or longer than 50 (a list
\* of 1 to 50 ids always reaches the dataset), and search_works with a
\* search_field outside the six valid ones returns an error envelope with
\* zero requests issued.
C2_ValidationBeforeContact ==
    /\ Finished("get_batch_work_details") =>
          LET n == Len(call.args.work_ids)
              rejected == /\ requests = <<>>
                          /\ outcome.kind = "return"
                          /\ DOMAIN outcome.value = {"error", "works"}
                          /\ outcome.value["works"] = List(<<>>)
          IN  /\ rejected <=> (n = 0 \/ n > 50)
              /\ (n >= 1 /\ n <= 50) => Len(requests) = 1
    /\ (/\ Finished("search_works")
        /\ call.args.search_field \notin
              {"default", "title", "abstract", "fulltext", "title_and_abstract",
               "display_name"}) =>
          /\ outcome.kind = "return"
          /\ "error" \in DOMAIN outcome.value
          /\ requests = <<>>

\* A list of 51 ids is rejected with no request issued.
C2_Witness ==
    /\ Finished("get_batch_work_details")
    /\ Len(call.args.work_ids) = 51
    /\ requests = <<>>
    /\ DOMAIN outcome.value = {"error", "works"}

C5_EmptyListAsOmitted ==
    (/\ pc = "done"
     /\ call.op \in {"search_works", "get_citing_works", "get_work_details",
                     "get_batch_work_details"}
     /\ call.args.select_fields = List(<<>>)) =>
        outcome = RunTool(call.op, [call.args EXCEPT !.select_fields = None], env).out

\* The dataset works behind the records of the current response, in order.
ServedWorks ==
    CASE call.op \in {"search_works", "get_citing_works"} ->
            IF IsNone(call.args.cursor) THEN <<>>
            ELSE SubSeq(Dataset, CursorOffset(call.args.cursor) + 1,
                        Min(CursorOffset(call.args.cursor) + call.args.per_page, env.nmatch))
      [] call.op = "get_batch_work_details" ->
            LET wanted == {CleanId(call.args.work_ids[i]) : i \in DOMAIN call.args.work_ids}
                hits == SelectSeq([i \in 1..Len(Dataset) |-> i],
                                  LAMBDA i : <<DatasetIds[i]>> \in wanted)
            IN  [i \in 1..Len(hits) |-> Dataset[hits[i]]]
      [] OTHER -> <<Dataset[Resolve(call.args.work_id)]>>

\* The records of the current response.
ReturnedRecords ==
    CASE call.op \in {"search_works", "get_citing_works"} ->
            [i \in DOMAIN outcome.value["results"].v |-> outcome.value["results"].v[i].v]
      [] call.op = "get_batch_work_details" ->
            [i \in DOMAIN outcome.value["works"].v |-> outcome.value["works"].v[i].v]
      [] OTHER -> <<outcome.value>>

Succeeded == outcome.kind = "return" /\ "error" \notin DOMAIN outcome.value

\* C6: every record or summary returned by search_works, get_citing_works,
\* get_work_details and get_batch_work_details carries the id and the doi
\* of the underlying work whenever the work has them, whatever select_fields
\* names (stated here for an omitted or non-empty select_fields).
C6_IdentifiersRetained ==
    (/\ pc = "done"
     /\ call.op \in {"search_works", "get_citing_works", "get_work_details",
                     "get_batch_work_details"}
     /\ call.args.select_fields # List(<<>>)
     /\ Succeeded
     /\ env.items # "junk_first") =>
        /\ Len(ReturnedRecords) = Len(ServedWorks)
        /\ \A i \in DOMAIN ReturnedRecords : \A k \in {"id", "doi"} :
              ~IsNone(ServedWorks[i][k]) =>
                 /\ k \in DOMAIN ReturnedRecords[i]
                 /\ ReturnedRecords[i][k] = ServedWorks[i][k]

\* C10: for a bare identifier W, get_referenced_works of the URL form and of
\* W send the same identifier, W, to the client and return the same
\* response; a bare identifier is sent unchanged.
C10_IdentifierNormalization ==
    Finished("get_referenced_works") =>
        \A w \in BareIds :
            (call.args.work_id \in {<<w>>, <<"https:", "/", "/", "openalex.org", "/", w>>}) =>
                /\ Len(requests) = 1
                /\ requests[1].id = <<w>>
                /\ outcome = get_referenced_works([work_id |-> <<w>>], env).out

\* The URL form of W1 is looked up as W1 and its references are returned.
C10_Witness ==
    /\ Finished("get_referenced_works")
    /\ call.args.work_id = <<"https:", "/", "/", "openalex.org", "/", "W1">>
    /\ requests[1].id = <<"W1">>
    /\ outcome.value = ("referenced_work_ids" :> List(<<IdUrl("W2"), IdUrl("W3")>>))

(***************************************************************************)
(* Specification of the Field Selector alone: _select_fields applied to    *)
(* every record and field list of the bounded input sets.                  *)
(***************************************************************************)
MaxFields == 2

SelectKeys == {"id", "doi", "title", "year"}

SelectFieldNames == {"id", "title", "year", "cited_by_count"}

\* Two records for each key set, differing in every value.
SelectValue(k, variant) ==
    CASE k = "id" -> S(IF variant = 1 THEN "W1" ELSE "W2")
      [] k = "doi" -> IF variant = 1 THEN S("D1") ELSE None
      [] k = "title" -> S(IF variant = 1 THEN "T" ELSE "U")
      [] OTHER -> Num(2019 + variant)

SelectItems ==
    {[k \in keys |-> SelectValue(k, variant)] : keys \in SUBSET SelectKeys, variant \in {1, 2}}

FieldLists(names, maxLen) ==
    {List(l) : l \in UNION {[1..n -> names] : n \in 0..maxLen}}

SelectFields ==
    /\ pc = "idle"
    /\ \E item \in SelectItems, fields \in FieldLists(SelectFieldNames, MaxFields) :
          /\ call' = [op |-> "_select_fields", item |-> item, fields |-> fields]
          /\ outcome' = [kind |-> "return", value |-> _select_fields(item, fields)]
    /\ pc' = "done"
    /\ UNCHANGED <<env, requests, seen>>

SpecSelect == Idle /\ [][SelectFields \/ NextInvocation]_vars

\* C4: for every record and every non-empty requested_fields, the result of
\* _select_fields has exactly the keys (requested_fields \cup {id, doi}) that
\* the record has, each carrying the record's value.
C4_SelectExactKeys ==
    (pc = "done" /\ call.op = "_select_fields" /\ Len(call.fields.v) > 0) =>
        /\ \A k \in SelectKeys \cup SelectFieldNames :
              (k \in DOMAIN outcome.value) <=>
                 /\ k \in DOMAIN call.item
                 /\ \/ k \in {"id", "doi"}
                    \/ \E i \in DOMAIN call.fields.v : call.fields.v[i] = k
        /\ DOMAIN outcome.value \subseteq SelectKeys \cup SelectFieldNames
        /\ \A k \in DOMAIN outcome.value : outcome.value[k] = call.item[k]

\* The spec's example: select({id, doi, title, year}, ["title"]) keeps id,
\* doi and title and drops year.
C4_Witness ==
    /\ pc = "done"
    /\ call.op = "_select_fields"
    /\ call.fields = List(<<"title">>)
    /\ DOMAIN call.item = {"id", "doi", "title", "year"}
    /\ DOMAIN outcome.value = {"id", "doi", "title"}
    /\ outcome.value["id"] = S("W1")

(***************************************************************************)
(* Specification of the Summarizer alone: _summarize_work applied to       *)
(* records whose sub-records are present, absent or null, and to           *)
(* authorship lists of every length up to MaxAuthorships.                  *)
(***************************************************************************)
MaxAuthorships == 10

Opt(k, values) == {EmptyMap} \cup {k :> v : v \in values}

SummaryBase ==
    [id |-> S("W1"), doi |-> S("D1"), title |-> S("T"),
     publication_year |-> Num(2020), cited_by_count |-> Num(7)]

PrimaryLocationOpts ==
    Opt("primary_location",
        {None, Dict(EmptyMap), Dict("source" :> None),
         Dict("source" :> Dict("display_name" :> S("Nature"))),
         Dict("source" :> Dict("id" :> S("S1")))})

BestOaOpts ==
    Opt("best_oa_location", {None, Dict("pdf_url" :> S("pdf")), Dict("pdf_url" :> None)})

OpenAccessOpts ==
    Opt("open_access", {None, Dict("oa_url" :> S("oa")), Dict("oa_url" :> None)})

AbstractOpts == Opt("abstract", {None, S("abs")})

\* Records varying the nested sub-records.
SubRecordWorks ==
    {SummaryBase @@ pl @@ boa @@ oa @@ ab :
        pl \in PrimaryLocationOpts, boa \in BestOaOpts,
        oa \in OpenAccessOpts, ab \in AbstractOpts}

AuthorName(i) == Str(<<"A", ToString(i)>>)

\* The ways an authorship can lack a display name.
NamelessKinds == {"no_author", "empty_author", "null_name", "empty_name", "null_author"}

Authorship(i, nameless, kind) ==
    IF i \notin nameless THEN Dict("author" :> Dict("display_name" :> AuthorName(i)))
    ELSE CASE kind = "no_author" -> Dict("position" :> Num(i))
           [] kind = "empty_author" -> Dict("author" :> Dict(EmptyMap))
           [] kind = "null_name" -> Dict("author" :> Dict("display_name" :> None))
           [] kind = "empty_name" -> Dict("author" :> Dict("display_name" :> Str(<<>>)))
           [] OTHER -> Dict("author" :> None)

\* Which authorships of a list of n lack a name: none, the first, the last,
\* the even ones, the first three, or all of them.
NamelessSets(n) ==
    {{}, {1} \cap (1..n), {n} \cap (1..n), {i \in 1..n : i % 2 = 0},
     (1..3) \cap (1..n), 1..n}

AuthorshipLists ==
    UNION {{List([i \in 1..n |-> Authorship(i, nameless, kind)]) :
               nameless \in NamelessSets(n), kind \in NamelessKinds} :
           n \in 0..MaxAuthorships}

\* Records varying the authorship list and the identifiers.
AuthorshipWorks ==
    {ids @@ ("authorships" :> a) @@ [title |-> S("T")] :
        ids \in {EmptyMap, [id |-> S("W1")], [id |-> S("W1"), doi |-> None],
                 [id |-> S("W1"), doi |-> S("D1")]},
        a \in AuthorshipLists}

SummarySelects ==
    {None, List(<<>>), List(<<"title">>), List(<<"authors", "id">>),
     List(<<"venue", "oa_url", "abstract", "cited_by_count", "host_venue">>)}

SummarizeWork ==
    /\ pc = "idle"
    /\ \E work_dict \in SubRecordWorks \cup AuthorshipWorks, select_fields \in SummarySelects :
          /\ call' = [op |-> "_summarize_work", work_dict |-> work_dict,
                      select_fields |-> select_fields]
          /\ outcome' = LET r == _summarize_work(work_dict, select_fields)
                        IN  IF r.ok THEN [kind |-> "return", value |-> r.v]
                            ELSE [kind |-> "raise", exc |-> r.exc]
    /\ pc' = "done"
    /\ UNCHANGED <<env, requests, seen>>

SpecSummarize == Idle /\ [][SummarizeWork \/ NextInvocation]_vars

Selected(select_fields, k) ==
    IsNone(select_fields) \/ \E i \in DOMAIN select_fields.v : select_fields.v[i] = k

\* C7: for every record, including records whose primary_location, source,
\* best_oa_location, open_access or author sub-record is absent or null,
\* _summarize_work returns a mapping; its keys are summary fields that were
\* selected and whose value is non-null, and no key maps to null.
C7_SummarizerTotal ==
    (pc = "done" /\ call.op = "_summarize_work") =>
        /\ outcome.kind = "return"
        /\ DOMAIN outcome.value \subseteq
              {k \in default_summary_keys : Selected(call.select_fields, k)}
        /\ \A k \in DOMAIN outcome.value : ~IsNone(outcome.value[k])
        /\ \A k \in {"id", "doi", "title", "publication_year", "cited_by_count", "abstract"} :
              (k \in DOMAIN outcome.value) <=>
                 /\ Selected(call.select_fields, k)
                 /\ k \in DOMAIN call.work_dict
                 /\ ~IsNone(call.work_dict[k])

\* The authorships of the record of the current call ([] when absent).
CallAuthorships == Get(call.work_dict, "authorships", List(<<>>)).v

\* Positions of the authorships that carry a non-empty display name.
NamedPositions ==
    {i \in DOMAIN CallAuthorships :
        LET a == CallAuthorships[i].v
        IN  /\ "author" \in DOMAIN a
            /\ "display_name" \in DOMAIN a["author"].v
            /\ a["author"].v["display_name"].t = "str"
            /\ a["author"].v["display_name"].v # <<>>}

\* The position of the k-th named authorship.
KthNamed(k) ==
    CHOOSE i \in NamedPositions : Cardinality({j \in NamedPositions : j <= i}) = k

\* C8: the authors of a summary are the display names of the named
\* authorships in authorship order, nameless ones skipped, cut to the first 6.
C8_AuthorCap ==
    (/\ pc = "done"
     /\ call.op = "_summarize_work"
     /\ outcome.kind = "return"
     /\ "authors" \in DOMAIN outcome.value) =>
        LET authors == outcome.value["authors"].v
        IN  /\ Len(authors) = Min(6, Cardinality(NamedPositions))
            /\ \A k \in 1..Len(authors) :
                  authors[k] = CallAuthorships[KthNamed(k)].v["author"].v["display_name"]

\* Ten named authorships yield exactly the first six names, in order.
C8_Witness ==
    /\ pc = "done"
    /\ call.op = "_summarize_work"
    /\ outcome.kind = "return"
    /\ Len(CallAuthorships) = 10
    /\ Cardinality(NamedPositions) = 10
    /\ outcome.value["authors"].v = [k \in 1..6 |-> AuthorName(k)]

\* Nameless authorships among more than six named ones are skipped without
\* a placeholder: the names of positions 1, 3, 5, 7, 9 of ten.
C8_WitnessSkip ==
    /\ pc = "done"
    /\ call.op = "_summarize_work"
    /\ outcome.kind = "return"
    /\ NamedPositions = {1, 3, 5, 7, 9}
    /\ outcome.value["authors"].v = [k \in 1..5 |-> AuthorName(2 * k - 1)]

(***************************************************************************)
(* Specification of cursor pagination: chains of search_works calls with   *)
(* one query, each call after the first passing the cursor the previous    *)
(* response returned.  seen holds the identifiers the earlier calls of the *)
(* chain returned, one entry per call.                                     *)
(***************************************************************************)
PagingSelects == {None, List(<<"title">>), List(<<"id", "title">>)}

PagingEnvs ==
    {Env("none", 0, "none", items, meta, nmatch) :
        items \in {"work", "junk_first"}, meta \in MetaKinds, nmatch \in 0..Len(Dataset)}
    \cup {Env(fault, at, "none", "work", "page", Len(Dataset)) :
             fault \in {"network", "http500"}, at \in 1..2}

\* The identifiers of the records of a page response.
ResultIds(value) ==
    LET results == value["results"].v
        withId == SelectSeq(results, LAMBDA r : "id" \in DOMAIN r.v)
    IN  [i \in 1..Len(withId) |-> withId[i].v["id"]]

NextCursorOf(value) == Get(value["meta"].v, "next_cursor", None)

SearchFirstPage ==
    /\ pc = "idle"
    /\ \E sel \in PagingSelects, sum \in BOOLEAN, pp \in 1..MaxPerPage, e \in PagingEnvs :
          LET a == [search_query |-> "q", search_field |-> "default", select_fields |-> sel,
                    summarize_results |-> sum, per_page |-> pp, cursor |-> Star]
          IN  \E r \in {search_works(a, e)} :
              /\ call' = [op |-> "search_works", args |-> a]
              /\ env' = e
              /\ requests' = r.reqs
              /\ outcome' = r.out
    /\ pc' = "done"
    /\ seen' = <<>>

\* The caller continues the listing with the cursor it was given.  The
\* dataset is unchanged between the calls; the client may fail anew.
SearchNextPage ==
    /\ pc = "done"
    /\ call.op = "search_works"
    /\ ~IsNone(NextCursorOf(outcome.value))
    /\ \E pp \in 1..MaxPerPage, fault \in {"none", "network", "http500"} :
          LET a == [call.args EXCEPT !.per_page = pp,
                                     !.cursor = NextCursorOf(outcome.value)]
              e == [env EXCEPT !.fault = fault, !.faultAt = IF fault = "none" THEN 0 ELSE 2]
          IN  \E r \in {search_works(a, e)} :
              /\ call' = [op |-> "search_works", args |-> a]
              /\ env' = e
              /\ requests' = r.reqs
              /\ outcome' = r.out
    /\ seen' = Append(seen, ResultIds(outcome.value))
    /\ UNCHANGED pc

SpecPaging == Idle /\ [][SearchFirstPage \/ SearchNextPage \/ NextInvocation]_vars

PageRequests == SelectSeq(requests, LAMBDA q : q.kind = "page")

\* C9: each search_works call fetches one page and returns the client's
\* next cursor unmodified, null when no further page exists; along a chain
\* of calls, each passing the previous response's next_cursor, no identifier
\* is returned twice, and the chain reaches a response with a null
\* next_cursor after at most one call per matching work.
C9_Pagination ==
    Finished("search_works") =>
        /\ Len(PageRequests) <= 1
        /\ Succeeded =>
              /\ Len(PageRequests) = 1
              /\ PageRequests[1].cursor = call.args.cursor
              /\ env.meta \in {"page", "fallback"} =>
                    NextCursorOf(outcome.value) =
                       ClientPage(call.args.cursor, call.args.per_page,
                                  PageRequests[1].select, env).meta["next_cursor"]
              /\ env.meta \notin {"page", "fallback"} => IsNone(NextCursorOf(outcome.value))
              /\ CursorOffset(call.args.cursor) >= env.nmatch =>
                    IsNone(NextCursorOf(outcome.value))
              /\ \A i \in DOMAIN seen : \A j \in DOMAIN seen[i] :
                    \A k \in DOMAIN ResultIds(outcome.value) :
                        ResultIds(outcome.value)[k] # seen[i][j]
              /\ Len(seen) >= env.nmatch => IsNone(NextCursorOf(outcome.value))
        /\ ~Succeeded => IsNone(NextCursorOf(outcome.value))
        /\ Len(seen) <= Len(Dataset)

\* A chain over three matching works, two per page: W1 and W3, then W4,
\* then an empty page with a null next_cursor.
C9_Witness ==
    /\ Finished("search_works")
    /\ Succeeded
    /\ seen = <<<<IdUrl("W1"), IdUrl("W3")>>, <<IdUrl("W4")>>>>
    /\ outcome.value["results"] = List(<<>>)
    /\ IsNone(NextCursorOf(outcome.value))

(***************************************************************************)
(* get_referenced_works: the value under referenced_work_ids.              *)
(***************************************************************************)
\* C11: every response of get_referenced_works holds a list under
\* referenced_work_ids, never null: the empty list when the record's
\* referenced_works is absent or null, and the empty list on error.
C11_ReferencedNeverNull ==
    Finished("get_referenced_works") =>
        /\ outcome.kind = "return"
        /\ "referenced_work_ids" \in DOMAIN outcome.value
        /\ outcome.value["referenced_work_ids"].t = "list"
        /\ "error" \in DOMAIN outcome.value =>
              outcome.value["referenced_work_ids"] = List(<<>>)

(***************************************************************************)
(* The shape of the responses.                                             *)
(***************************************************************************)
\* The result keys of an operation and their empty placeholder values.
Placeholders(op) ==
    CASE op \in {"search_works", "get_citing_works"} ->
            ("results" :> List(<<>>)) @@ ("meta" :> Dict(EmptyMap))
      [] op = "get_batch_work_details" -> ("works" :> List(<<>>))
      [] op = "get_referenced_works" -> ("referenced_work_ids" :> List(<<>>))
      [] OTHER -> EmptyMap

\* C12: every response of search_works, get_citing_works,
\* get_batch_work_details and get_referenced_works is a mapping holding the
\* operation's result keys, with or without an error key; when the error
\* key is present the result keys hold their empty placeholder values.
C12_ConsistentShape ==
    (pc = "done" /\ Placeholders(call.op) # EmptyMap) =>
        /\ outcome.kind = "return"
        /\ DOMAIN Placeholders(call.op) \subseteq DOMAIN outcome.value
        /\ "error" \in DOMAIN outcome.value =>
              \A k \in DOMAIN Placeholders(call.op) :
                  outcome.value[k] = Placeholders(call.op)[k]

\* A search whose page request the client failed: error, with the empty
\* results and meta.
C12_Witness ==
    /\ Finished("search_works")
    /\ env.fault = "http500" /\ env.faultAt = 2
    /\ Len(requests) = 2
    /\ DOMAIN outcome.value = {"error", "results", "meta"}
    /\ outcome.value["results"] = List(<<>>)

(***************************************************************************)
(* get_work_details: what is fetched, and the inverted index.              *)
(***************************************************************************)
\* Whether select_fields names the field.
Names(select_fields, field) == Truthy(select_fields) /\ field \in SetOf(select_fields)

\* C13: get_work_details asks the client for the full record exactly when
\* select_fields is not given or names "abstract", and otherwise for
\* select_fields with id and doi added; a successful result holds
\* abstract_inverted_index next to a non-null abstract only if select_fields
\* names the index, and when the abstract resolved to null the index of
\* the selected record is left in place.
C13_DetailsFetchAndIndex ==
    Finished("get_work_details") =>
        LET sel == call.args.select_fields
            full == ~Truthy(sel) \/ Names(sel, "abstract")
        IN  /\ Len(requests) = 1
            /\ requests[1].select =
                  IF full THEN SelAll ELSE Sel(SetOf(sel) \cup {"id", "doi"})
            /\ Succeeded =>
                  LET result == outcome.value
                      record == Dataset[Resolve(call.args.work_id)]
                      hasAbstract == "abstract" \in DOMAIN result /\ ~IsNone(result["abstract"])
                      hasIndex == "abstract_inverted_index" \in DOMAIN result
                  IN  /\ (hasIndex /\ hasAbstract) => Names(sel, "abstract_inverted_index")
                      /\ (full /\ ~hasAbstract) =>
                            (hasIndex <=> /\ "abstract_inverted_index" \in DOMAIN record
                                          /\ (~Truthy(sel) \/ Names(sel, "abstract_inverted_index")))

\* The full record of W1 fetched with no select_fields: the abstract is
\* rebuilt from the index and the index is gone from the result.
C13_Witness ==
    /\ Finished("get_work_details")
    /\ Succeeded
    /\ IsNone(call.args.select_fields)
    /\ requests[1].select = SelAll
    /\ outcome.value["abstract"] = Str(<<"the", " ", "cat", " ", "the">>)
    /\ "abstract_inverted_index" \notin DOMAIN outcome.value

\* The full record of W2, whose index is null: the abstract is null and the
\* index is left in the result.
C13_WitnessNull ==
    /\ Finished("get_work_details")
    /\ Succeeded
    /\ IsNone(call.args.select_fields)
    /\ IsNone(outcome.value["abstract"])
    /\ "abstract_inverted_index" \in DOMAIN outcome.value

(***************************************************************************)
(* get_batch_work_details: the abstract and the inverted index.            *)
(***************************************************************************)
\* The work of the dataset a returned record stands for.
WorkOf(rec) == Dataset[CHOOSE i \in DOMAIN Dataset : Dataset[i].id = rec["id"]]

\* C14: when select_fields names "abstract", get_batch_work_details asks
\* the client for abstract_inverted_index and not for abstract, and every
\* returned record has an abstract key holding the text rebuilt from the
\* work's index, or null; whatever select_fields is, a returned record
\* holds abstract_inverted_index only if select_fields names it.
C14_BatchAbstract ==
    (Finished("get_batch_work_details") /\ Len(requests) = 1) =>
        LET sel == call.args.select_fields
        IN  /\ Names(sel, "abstract") =>
                  /\ ~requests[1].select.all
                  /\ "abstract_inverted_index" \in requests[1].select.fields
                  /\ "abstract" \notin requests[1].select.fields
            /\ Succeeded =>
                  \A i \in DOMAIN ReturnedRecords :
                      LET rec == ReturnedRecords[i]
                      IN  /\ Names(sel, "abstract") =>
                                /\ "abstract" \in DOMAIN rec
                                /\ \/ IsNone(rec["abstract"])
                                   \/ /\ Truthy(WorkOf(rec).abstract_inverted_index)
                                      /\ rec["abstract"] =
                                            InvertAbstract(WorkOf(rec).abstract_inverted_index)
                          /\ "abstract_inverted_index" \in DOMAIN rec =>
                                Names(sel, "abstract_inverted_index")

\* A batch asked for ["abstract"]: W2, whose index is null, comes back with
\* a null abstract, and W4 with its abstract rebuilt; neither holds the
\* index.
C14_Witness ==
    /\ Finished("get_batch_work_details")
    /\ Succeeded
    /\ call.args.select_fields = List(<<"abstract">>)
    /\ requests[1].select = Sel({"id", "abstract_inverted_index"})
    /\ \E i, j \in DOMAIN ReturnedRecords :
          /\ ReturnedRecords[i] = [id |-> IdUrl("W4"), abstract |-> S("fox")]
          /\ ReturnedRecords[j] = [id |-> IdUrl("W2"), abstract |-> None]

(***************************************************************************)
(* Shaping of one page by search_works and by get_citing_works: the page   *)
(* the client returned is handed to the shaping code of both handlers      *)
(* (lines 270-292 and 623-644), with the same select_fields, summarize and *)
(* per_page arguments.                                                     *)
(***************************************************************************)
ShapeSamePage ==
    /\ pc = "idle"
    /\ \E sel \in SelectArgs, sum \in BOOLEAN, pp \in 1..MaxPerPage,
          cur \in CursorArgs, e \in ListingEnvs(1) :
          LET a == [select_fields |-> sel, summarize_results |-> sum,
                    per_page |-> pp, cursor |-> cur]
              select == IF ~sum /\ Truthy(sel) THEN Sel(SetOf(sel)) ELSE SelAll
          IN  \E fetch \in {FetchFirstPage(<<"listing">>, select, pp, cur, e, 1)} :
              /\ call' = [op |-> "shape_page", args |-> a]
              /\ env' = e
              /\ requests' = fetch.reqs
              /\ outcome' = [kind |-> "shapes",
                             search |-> SearchShape(a, fetch, fetch.reqs).out,
                             citing |-> CitingShape(a, fetch).out]
    /\ pc' = "done"
    /\ UNCHANGED seen

SpecShaping == Idle /\ [][ShapeSamePage \/ NextInvocation]_vars

\* C15: for the same page of records from the client and the same
\* select_fields and summarize arguments (select_fields being a non-empty
\* list whenever summarize is false), search_works and get_citing_works
\* return the same response: the same results, record by record, and the
\* same meta.
C15_SameShaping ==
    (/\ Finished("shape_page")
     /\ (~call.args.summarize_results => Truthy(call.args.select_fields))) =>
        outcome.search = outcome.citing

(***************************************************************************)
(* Malformed records on a page or in a batch.                              *)
(***************************************************************************)
\* The number of items the client handed to the running invocation.
ItemsHanded ==
    CASE call.op \in {"search_works", "get_citing_works"} ->
            IF IsNone(call.args.cursor) THEN 0
            ELSE Len(ClientPage(call.args.cursor, call.args.per_page, SelAll, env).items)
      [] call.op = "get_batch_work_details" ->
            Len(ClientList([i \in DOMAIN call.args.work_ids |->
                               CleanId(call.args.work_ids[i])], SelAll, env, 1).v)
      [] OTHER -> 0

\* C16: when the client answers every request of search_works,
\* get_citing_works or get_batch_work_details, a malformed record among the
\* items (one that is no mapping and cannot be converted, or one with a
\* null primary_location, open_access or author) does not fail the
\* invocation: the response has no error key and holds all the items but
\* at most the one dropped.
C16_PartialFailureIsolated ==
    (/\ pc = "done"
     /\ call.op \in {"search_works", "get_citing_works", "get_batch_work_details"}
     /\ env.fault = "none"
     /\ Len(requests) > 0) =>
        /\ Succeeded
        /\ Len(ReturnedRecords) >= ItemsHanded - 1

(***************************************************************************)
(* Concurrent invocations.  The host may run several invocations at once;  *)
(* here an invocation may be suspended at every request it makes to the    *)
(* client, which covers the interleavings of the code (whose client calls  *)
(* are synchronous but for the awaited query._get_meta()).  The state the  *)
(* invocations share is the module-level pyalex.config, set at import and  *)
(* read by the client at every request.  In this specification pc, call,   *)
(* requests and outcome hold one entry for each invocation slot, and env   *)
(* holds the configuration and each slot's client behaviour.               *)
(***************************************************************************)
NumInvocations == 2

Slots == 1..NumInvocations

\* pyalex.config after the module is imported: email and api_key come from
\* the process environment, if set.
StartupConfig(email, api_key) ==
    [email |-> email, api_key |-> api_key, max_retries |-> 3,
     retry_backoff_factor |-> "0.5", retry_http_codes |-> {429, 500, 503}]

ConfigAfterTagged(config, op) == [config EXCEPT !.email = S(op)]

\* pyalex.config after a handler has run its code up to a client call: no
\* handler assigns to it.
ConfigAfter(config, op) == config

\* A request as the client performs it, with the configuration it read.
Performed(req, config) == [req |-> req, config |-> config]

OkListing == Env("none", 0, "none", "work", "page", Len(Dataset))

\* The invocations that may run at once: an operation, its arguments and
\* the client's behaviour towards it.
ConcurrentCalls ==
    {[op |-> "search_works",
      args |-> [search_query |-> "q", search_field |-> "default", select_fields |-> None,
                summarize_results |-> TRUE, per_page |-> MaxPerPage, cursor |-> Star],
      e |-> e] :
        e \in {Env("none", 0, "none", "work", "page", 3),
               Env("none", 0, "none", "work", "fallback", 3),
               Env("network", 2, "none", "work", "page", 3)}}
    \cup {[op |-> "get_work_details", args |-> [work_id |-> <<"W1">>, select_fields |-> sel],
           e |-> OkListing] : sel \in {None, List(<<"title">>)}}
    \cup {[op |-> "get_batch_work_details",
           args |-> [work_ids |-> <<<<"W2">>, OPENALEX_PREFIX \o <<"W4">>>>,
                     select_fields |-> None],
           e |-> OkListing]}
    \cup {[op |-> "get_referenced_works", args |-> [work_id |-> <<"W1">>], e |-> OkListing]}
    \cup {[op |-> "get_citing_works",
           args |-> [work_id |-> <<"W1">>, select_fields |-> List(<<"title">>),
                     summarize_results |-> FALSE, per_page |-> MaxPerPage, cursor |-> Star],
           e |-> OkListing]}
    \cup {[op |-> "get_work_ngrams", args |-> [work_id |-> <<"W1">>], e |-> e] :
             e \in {OkListing, Env("http404", 2, "none", "work", "page", Len(Dataset))}}

AllIdle ==
    /\ pc = [i \in Slots |-> "idle"]
    /\ call = [i \in Slots |-> NoCall]
    /\ \E email \in {None, S("me@example.org")}, api_key \in {None, S("key")} :
          env = [config |-> StartupConfig(email, api_key), client |-> [i \in Slots |-> NoEnv]]
    /\ requests = [i \in Slots |-> <<>>]
    /\ outcome = [i \in Slots |-> NoOutcome]
    /\ seen = <<>>

\* The host starts an invocation: the handler runs up to its first request
\* to the client, or to its return when it makes none.
Start(i) ==
    /\ pc[i] = "idle"
    /\ \E c \in ConcurrentCalls :
          \E r \in {RunTool(c.op, c.args, c.e)} :
          \E config \in {ConfigAfter(env.config, c.op)} :
              /\ call' = [call EXCEPT ![i] = [op |-> c.op, args |-> c.args,
                                              config |-> config]]
              /\ env' = [config |-> config, client |-> [env.client EXCEPT ![i] = c.e]]
              /\ IF Len(r.reqs) = 0
                 THEN /\ pc' = [pc EXCEPT ![i] = "done"]
                      /\ requests' = requests
                      /\ outcome' = [outcome EXCEPT ![i] = r.out]
                 ELSE /\ pc' = [pc EXCEPT ![i] = "suspended"]
                      /\ requests' = [requests EXCEPT
                                         ![i] = <<Performed(r.reqs[1], config)>>]
                      /\ outcome' = outcome
    /\ UNCHANGED seen

\* The client answers the request an invocation is suspended at; the
\* handler runs on to its next request, or to its return.
Resume(i) ==
    /\ pc[i] = "suspended"
    /\ \E r \in {RunTool(call[i].op, call[i].args, env.client[i])} :
       \E config \in {ConfigAfter(env.config, call[i].op)} :
          /\ env' = [env EXCEPT !.config = config]
          /\ IF Len(requests[i]) < Len(r.reqs)
             THEN /\ requests' = [requests EXCEPT
                                     ![i] = Append(@, Performed(r.reqs[Len(@) + 1], config))]
                  /\ UNCHANGED <<pc, outcome>>
             ELSE /\ pc' = [pc EXCEPT ![i] = "done"]
                  /\ outcome' = [outcome EXCEPT ![i] = r.out]
                  /\ UNCHANGED requests
    /\ UNCHANGED <<call, seen>>

\* The caller takes the response; the slot is free again.
Collect(i) ==
    /\ pc[i] = "done"
    /\ pc' = [pc EXCEPT ![i] = "idle"]
    /\ call' = [call EXCEPT ![i] = NoCall]
    /\ env' = [env EXCEPT !.client[i] = NoEnv]
    /\ requests' = [requests EXCEPT ![i] = <<>>]
    /\ outcome' = [outcome EXCEPT ![i] = NoOutcome]
    /\ UNCHANGED seen

StartInvocation == \E i \in Slots : Start(i)
ResumeInvocation == \E i \in Slots : Resume(i)
CollectResponse == \E i \in Slots : Collect(i)

SpecConcurrent ==
    AllIdle /\ [][StartInvocation \/ ResumeInvocation \/ CollectResponse]_vars

\* What an invocation has done so far is what it does when run alone with
\* the same arguments and the same client behaviour: the same requests,
\* performed under the configuration it started with, and the same response.
RunsAsAlone ==
    \A i \in Slots :
        pc[i] # "idle" =>
            \E r \in {RunTool(call[i].op, call[i].args, env.client[i])} :
                /\ Len(requests[i]) <= Len(r.reqs)
                /\ \A k \in DOMAIN requests[i] :
                      requests[i][k] = Performed(r.reqs[k], call[i].config)
                /\ pc[i] = "done" =>
                      /\ Len(requests[i]) = Len(r.reqs)
                      /\ outcome[i] = r.out

\* A step leaves the configuration as it is, changes the state of one
\* invocation at most, and leaves every response not yet collected as it is.
StepFrame ==
    /\ env'.config = env.config
    /\ \A i, j \in Slots :
          (i # j /\ <<pc[i], call[i], requests[i], outcome[i]>>
                      # <<pc'[i], call'[i], requests'[i], outcome'[i]>>) =>
              <<pc[j], call[j], requests[j], outcome[j], env.client[j]>>
                = <<pc'[j], call'[j], requests'[j], outcome'[j], env'.client[j]>>
    /\ \A i \in Slots :
          (pc[i] = "done" /\ pc'[i] = "done") => outcome'[i] = outcome[i]

====
